---- MODULE Spec2Model ----
(***************************************************************************)
(* Liquidity Zone Reversion Bot v2 (src/BESTBOT_FullPythonCode.py).        *)
(*                                                                         *)
(* The module models the indicator pipeline (get_data, calculate_rsi),     *)
(* the trend classifier (get_daily_trend), the evaluator with its position *)
(* sizing (check_signal, get_balance), the execution gateway (place_order, *)
(* send_alert) and the run loop (main).                                    *)
(*                                                                         *)
(* Floating point values are exact rationals extended with NaN and the     *)
(* two infinities; rounding is not modelled.  A function that can raise    *)
(* returns a record whose field exc tells whether an exception left it.    *)
(***************************************************************************)
EXTENDS Integers, Sequences, FiniteSets, TLC

(***************************************************************************)
(* Floating point values: [k, n, d] is n/d (k = "num", d > 0, lowest       *)
(* terms), NaN (k = "nan") or an infinity of sign n (k = "inf").           *)
(***************************************************************************)
Abs(x) == IF x < 0 THEN -x ELSE x

Sgn(x) == IF x < 0 THEN -1 ELSE IF x > 0 THEN 1 ELSE 0

RECURSIVE GCD(_, _)
GCD(a, b) == IF b = 0 THEN a ELSE GCD(b, a % b)

Num(n, d) ==
    IF d = 1 THEN [k |-> "num", n |-> n, d |-> 1]
    ELSE LET g == GCD(Abs(n), Abs(d))
             s == IF d < 0 THEN -1 ELSE 1
         IN  [k |-> "num", n |-> (s * n) \div g, d |-> (s * d) \div g]

I(n) == [k |-> "num", n |-> n, d |-> 1]

NaN == [k |-> "nan", n |-> 0, d |-> 1]

Inf(s) == [k |-> "inf", n |-> s, d |-> 1]

IsNa(a) == a.k = "nan"

IsFinite(a) == a.k = "num"

FSgn(a) == Sgn(a.n)

FNeg(a) == [a EXCEPT !.n = -a.n]

FAdd(a, b) ==
    IF a.k = "num" /\ b.k = "num"
    THEN IF a.d = 1 /\ b.d = 1 THEN I(a.n + b.n)
         ELSE Num(a.n * b.d + b.n * a.d, a.d * b.d)
    ELSE IF a.k = "nan" \/ b.k = "nan" THEN NaN
    ELSE IF a.k = "inf" /\ b.k = "inf" THEN (IF a.n = b.n THEN a ELSE NaN)
    ELSE IF a.k = "inf" THEN a ELSE b

FSub(a, b) == FAdd(a, FNeg(b))

FMul(a, b) ==
    IF a.k = "num" /\ b.k = "num" THEN Num(a.n * b.n, a.d * b.d)
    ELSE IF a.k = "nan" \/ b.k = "nan" \/ FSgn(a) * FSgn(b) = 0 THEN NaN
    ELSE Inf(FSgn(a) * FSgn(b))

\* IEEE division, as numpy and pandas perform it: x/0 is an infinity, 0/0 is NaN.
FDiv(a, b) ==
    IF a.k = "num" /\ b.k = "num"
    THEN IF b.n # 0 THEN Num(a.n * b.d, a.d * b.n)
         ELSE IF a.n = 0 THEN NaN ELSE Inf(Sgn(a.n))
    ELSE IF a.k = "nan" \/ b.k = "nan" THEN NaN
    ELSE IF a.k = "inf" /\ b.k = "inf" THEN NaN
    ELSE IF a.k = "inf" THEN Inf(a.n * (IF FSgn(b) < 0 THEN -1 ELSE 1))
    ELSE I(0)

\* Comparisons: every comparison with NaN is False.
FLt(a, b) ==
    IF a.k = "num" /\ b.k = "num" THEN a.n * b.d < b.n * a.d
    ELSE IF a.k = "nan" \/ b.k = "nan" THEN FALSE
    ELSE IF a.k = "inf" /\ b.k = "inf" THEN a.n < b.n
    ELSE IF a.k = "inf" THEN a.n < 0 ELSE b.n > 0

FGt(a, b) == FLt(b, a)

FGe(a, b) == ~IsNa(a) /\ ~IsNa(b) /\ ~FLt(a, b)

FLe(a, b) == FGe(b, a)

FMax(a, b) == IF FLt(a, b) THEN b ELSE a

FMin(a, b) == IF FLt(b, a) THEN b ELSE a

Zero == I(0)

Hundred == I(100)

(***************************************************************************)
(* Configuration (lines 16-28).  The numbers below are the defaults of the *)
(* environment variables; PAPER_TRADING and STOP_LOSS_PCT are variables of *)
(* the model, chosen by the environment when the process starts.           *)
(***************************************************************************)
RISK_PERCENT == 1

MIN_VOLUME_FACTOR == 1

RSI_OVERBOUGHT == 75

RSI_OVERSOLD == 25

WICK_RATIO == 2

SMA_WINDOW == 200

VOL_WINDOW == 20

RSI_PERIOD == 14

LIMIT == 100

DAILY_LIMIT == 50

PAPER_BALANCE == 1000

COOLDOWN == 600

POLL_INTERVAL == 300

RECOVERY_PAUSE == 60

\* 1e-8, the term that keeps a doji's wick ratio finite (lines 72-73)
EPSILON == Num(1, 100000000)

\* the 5% safety margin of the position size (lines 162, 174)
SAFETY_MARGIN == Num(95, 100)

\* STOP_LOSS_PCT as the environment may set it: the default 1.2, or 0
StopLossChoices == {Num(12, 10), Zero}

(***************************************************************************)
(* calculate_rsi (lines 56-61) on a concrete series of closes.             *)
(***************************************************************************)
\* series.diff(): the first element has no predecessor
Diff(s) == [i \in 1..Len(s) |-> IF i = 1 THEN NaN ELSE FSub(s[i], s[i - 1])]

\* delta.where(delta > 0, 0): NaN > 0 is False, so NaN becomes 0
Gains(delta) ==
    [i \in 1..Len(delta) |-> IF FGt(delta[i], Zero) THEN delta[i] ELSE Zero]

\* -delta.where(delta < 0, 0)
Losses(delta) ==
    [i \in 1..Len(delta) |-> FNeg(IF FLt(delta[i], Zero) THEN delta[i] ELSE Zero)]

RECURSIVE SumRange(_, _, _)
SumRange(s, lo, hi) ==
    IF lo > hi THEN Zero ELSE FAdd(SumRange(s, lo, hi - 1), s[hi])

\* rolling(window).mean(): NaN until the window is filled
RollingMean(s, window) ==
    [i \in 1..Len(s) |->
        IF i < window THEN NaN
        ELSE FDiv(SumRange(s, i - window + 1, i), I(window))]

\* lines 60-61: rs = gain / loss; 100 - (100 / (1 + rs))
RsiFrom(gain, loss) ==
    LET rs == FDiv(gain, loss)
    IN  FSub(Hundred, FDiv(Hundred, FAdd(I(1), rs)))

calculate_rsi(series, period) ==
    LET delta == Diff(series)
        gain == RollingMean(Gains(delta), period)
        loss == RollingMean(Losses(delta), period)
    IN  [i \in 1..Len(series) |-> RsiFrom(gain[i], loss[i])]

(***************************************************************************)
(* get_data (lines 63-78).  exchange.fetch_ohlcv either raises (ok is      *)
(* FALSE) or returns a series, kept as its length, its last rows           *)
(* (at most two: the only rows the program reads) and the trailing means   *)
(* of the history behind them: of volume over VOL_WINDOW rows, of close    *)
(* over SMA_WINDOW rows, of the gains and of the losses over RSI_PERIOD    *)
(* rows.  A rolling field of the row at 0-based index idx is NaN while     *)
(* idx + 1 is less than its window.                                        *)
(***************************************************************************)
Rolling(window, idx, mean) == IF idx + 1 < window THEN NaN ELSE mean

AnalyticsRow(c, idx, s) ==
    LET open == I(c.open)
        close == I(c.close)
        body == I(Abs(c.close - c.open))
        upper_wick == FSub(I(c.high), FMax(open, close))
        lower_wick == FSub(FMin(open, close), I(c.low))
    IN  [open |-> open, high |-> I(c.high), low |-> I(c.low), close |-> close,
         volume |-> I(c.volume),
         wick_ratio_upper |-> FDiv(upper_wick, FAdd(body, EPSILON)),
         wick_ratio_lower |-> FDiv(lower_wick, FAdd(body, EPSILON)),
         avg_volume |-> Rolling(VOL_WINDOW, idx, I(s.meanVol)),
         sma_200 |-> Rolling(SMA_WINDOW, idx, I(s.meanClose)),
         rsi |-> Rolling(RSI_PERIOD, idx, RsiFrom(I(s.meanGain), I(s.meanLoss)))]

\* the result of a call: ret is meaningful when exc is FALSE
Return(v) == [exc |-> FALSE, ret |-> v]

Raise == [exc |-> TRUE, ret |-> "exception"]

get_data(ohlcv) ==
    IF ~ohlcv.ok THEN Raise
    ELSE Return([len |-> ohlcv.len,
                 rows |-> [j \in 1..Len(ohlcv.tail) |->
                             AnalyticsRow(ohlcv.tail[j],
                                          ohlcv.len - Len(ohlcv.tail) + j - 1,
                                          ohlcv)]])

\* df.iloc[-k], k = 1 or 2: IndexError when the frame has fewer than k rows
ILoc(df, k) ==
    IF df.len < k THEN Raise ELSE Return(df.rows[Len(df.rows) - k + 1])

(***************************************************************************)
(* get_daily_trend (lines 80-96)                                           *)
(***************************************************************************)
\* the classification without the pd.isna test
ClassifyWithoutIsna(latest) ==
    IF FGt(latest.close, latest.sma_200) THEN "bullish" ELSE "bearish"

Classify(latest) ==
    IF IsNa(latest.sma_200) THEN "unknown"
    ELSE IF FGt(latest.close, latest.sma_200) THEN "bullish" ELSE "bearish"

get_daily_trend(ohlcv) ==
    LET df_daily == get_data(ohlcv)
        latest == ILoc(df_daily.ret, 1)
    IN  IF df_daily.exc \/ latest.exc
        THEN [trend |-> "unknown", log |-> <<"Daily trend error">>]
        ELSE [trend |-> Classify(latest.ret), log |-> <<>>]

(***************************************************************************)
(* get_balance (lines 98-106).  exchange.fetch_balance either raises (ok   *)
(* is FALSE) or returns the free amount of the asset.                      *)
(***************************************************************************)
get_balance(paper, fetched) ==
    IF paper THEN [ret |-> I(PAPER_BALANCE), log |-> <<>>]
    ELSE IF ~fetched.ok THEN [ret |-> Zero, log |-> <<"Balance fetch failed">>]
    ELSE [ret |-> I(fetched.free), log |-> <<>>]

(***************************************************************************)
(* send_alert (lines 47-54): the post may fail; the failure is logged and  *)
(* swallowed.                                                              *)
(***************************************************************************)
\* send_alert without its try
SendAlertUnguarded(post) == [exc |-> post = "fail", log |-> <<>>]

send_alert(post) ==
    [exc |-> FALSE, log |-> IF post = "fail" THEN <<"Telegram failed">> ELSE <<>>]

(***************************************************************************)
(* place_order (lines 108-132).  live counts the calls made to             *)
(* create_market_buy_order / create_market_sell_order, alerts the calls    *)
(* made to send_alert.                                                     *)
(***************************************************************************)
PlaceOrderPaper(side, amount, post) ==
    LET a == send_alert(post)
    IN  [exc |-> a.exc, ret |-> TRUE, live |-> 0, alerts |-> 1,
         log |-> <<"PAPER TRADE">> \o a.log]

PlaceOrderLive(side, amount, order, post) ==
    IF order = "ok"
    THEN LET a == send_alert(post)
         IN  IF ~a.exc
             THEN [exc |-> FALSE, ret |-> TRUE, live |-> 1, alerts |-> 1,
                   log |-> <<"Live order placed">> \o a.log]
             ELSE LET b == send_alert(post)
                  IN  [exc |-> b.exc, ret |-> FALSE, live |-> 1, alerts |-> 2,
                       log |-> <<"Live order placed", "Order failed">> \o b.log]
    ELSE LET b == send_alert(post)
         IN  [exc |-> b.exc, ret |-> FALSE, live |-> 1, alerts |-> 1,
              log |-> <<"Order failed">> \o b.log]

\* place_order without its paper branch
PlaceOrderAlwaysLive(paper, side, amount, order, post) ==
    PlaceOrderLive(side, amount, order, post)

place_order(paper, side, amount, order, post) ==
    IF paper THEN PlaceOrderPaper(side, amount, post)
    ELSE PlaceOrderLive(side, amount, order, post)

(***************************************************************************)
(* check_signal (lines 137-182)                                            *)
(***************************************************************************)
None == [side |-> "none", amount |-> Zero]

\* df.iloc[-1], the candle still forming
FormingRow(df) == ILoc(df, 1)

\* line 141: df.iloc[-2], the last closed candle
DecisionRow(df) == ILoc(df, 2)

\* line 144
LowVolume(latest) ==
    FLt(latest.volume, FMul(I(MIN_VOLUME_FACTOR), latest.avg_volume))

\* line 149
AgainstTrend(daily_trend, latest) ==
    daily_trend = "bullish" /\ FLt(latest.close, latest.sma_200)

\* lines 156-158
BuyEntry(latest) ==
    /\ FGe(latest.wick_ratio_lower, I(WICK_RATIO))
    /\ FLt(latest.rsi, I(RSI_OVERSOLD))
    /\ FGt(latest.close, latest.open)

\* lines 168-170
SellEntry(latest) ==
    /\ FGe(latest.wick_ratio_upper, I(WICK_RATIO))
    /\ FGt(latest.rsi, I(RSI_OVERBOUGHT))
    /\ FLt(latest.close, latest.open)

\* a division of two Python floats: ZeroDivisionError on a zero divisor
PyDiv(a, b) == IF IsFinite(b) /\ b.n = 0 THEN Raise ELSE Return(FDiv(a, b))

\* lines 160-162: price is a numpy float, so the division is numpy's
BuyAmount(balance, price, stop_loss_pct) ==
    LET risk == FMul(balance, FDiv(I(RISK_PERCENT), Hundred))
        stop == FMul(price, FDiv(stop_loss_pct, Hundred))
    IN  Return(FMul(FDiv(risk, stop), SAFETY_MARGIN))

\* lines 172-174: both operands are Python floats
SellAmount(balance, price, stop_loss_pct) ==
    LET risk == FMul(balance, FDiv(I(RISK_PERCENT), Hundred))
        q == PyDiv(risk, FDiv(stop_loss_pct, Hundred))
    IN  IF q.exc THEN Raise ELSE Return(FMul(q.ret, SAFETY_MARGIN))

\* the value of a run of the body: exc, or the signal it returns
Result(sig, frame, trend, bal, lg) ==
    [exc |-> FALSE, signal |-> sig, df |-> frame, daily_trend |-> trend,
     balance |-> bal, log |-> lg]

Raised(frame, trend, bal, lg) ==
    [exc |-> TRUE, signal |-> None, df |-> frame, daily_trend |-> trend,
     balance |-> bal, log |-> lg]

\* balance: what get_balance returned, when it was called
NoBalance == [called |-> FALSE, value |-> Zero]

Balance(v) == [called |-> TRUE, value |-> v]

\* df before get_data returned
NoFrame == [len |-> 0, rows |-> <<>>]

\* lines 153-178: the directional entry test and the position size
Entry(paper, stop_loss_pct, frame, t, latest, fetched) ==
    IF t.trend = "bullish" /\ BuyEntry(latest)
    THEN LET b == get_balance(paper, fetched)
             amt == BuyAmount(b.ret, latest.close, stop_loss_pct)
         IN  IF amt.exc THEN Raised(frame, t.trend, Balance(b.ret), t.log \o b.log)
             ELSE Result([side |-> "buy", amount |-> amt.ret], frame, t.trend,
                         Balance(b.ret),
                         t.log \o b.log \o <<"Bullish reversion signal">>)
    ELSE IF t.trend = "bearish" /\ SellEntry(latest)
    THEN LET b == get_balance(paper, fetched)
             amt == SellAmount(b.ret, latest.close, stop_loss_pct)
         IN  IF amt.exc THEN Raised(frame, t.trend, Balance(b.ret), t.log \o b.log)
             ELSE Result([side |-> "sell", amount |-> amt.ret], frame, t.trend,
                         Balance(b.ret),
                         t.log \o b.log \o <<"Bearish reversion signal">>)
    ELSE Result(None, frame, t.trend, NoBalance, t.log)

\* lines 143-151: the volume gate and the trend-consistency gate
Gates(paper, stop_loss_pct, frame, t, latest, fetched) ==
    IF LowVolume(latest)
    THEN Result(None, frame, t.trend, NoBalance,
                t.log \o <<"Skipped: Low volume">>)
    ELSE IF AgainstTrend(t.trend, latest)
    THEN Result(None, frame, t.trend, NoBalance,
                t.log \o <<"Skipped: Price below 200-SMA in uptrend">>)
    ELSE Entry(paper, stop_loss_pct, frame, t, latest, fetched)

\* lines 140-141, after get_data returned
Evaluated(paper, stop_loss_pct, frame, t, row, fetched) ==
    IF row.exc THEN Raised(frame, t.trend, NoBalance, t.log)
    ELSE Gates(paper, stop_loss_pct, frame, t, row.ret, fetched)

\* lines 139-178, the body of the try
CheckSignalBody(paper, stop_loss_pct, work, daily, fetched) ==
    LET df == get_data(work)
    IN  IF df.exc THEN Raised(NoFrame, "unset", NoBalance, <<>>)
        ELSE Evaluated(paper, stop_loss_pct, df.ret, get_daily_trend(daily),
                       DecisionRow(df.ret), fetched)

RaisedToNone(r) ==
    IF r.exc THEN [r EXCEPT !.exc = FALSE, !.log = r.log \o <<"Signal check error">>]
    ELSE r

\* lines 137-182: every exception of the body becomes "no signal"
check_signal(paper, stop_loss_pct, work, daily, fetched) ==
    RaisedToNone(CheckSignalBody(paper, stop_loss_pct, work, daily, fetched))

(***************************************************************************)
(* main (lines 187-204): what follows an order, and the three sleeps.      *)
(***************************************************************************)
\* a cool-down only after an order that was placed
AfterOrderIfPlaced(placed) == IF placed THEN "cooldown" ELSE "poll"

\* lines 196-197: the cool-down follows the order whatever place_order returned
AfterOrder(placed) == "cooldown"

\* lines 197, 200, 204
SleepTime(at) ==
    IF at = "cooldown" THEN COOLDOWN
    ELSE IF at = "poll" THEN POLL_INTERVAL
    ELSE RECOVERY_PAUSE

\* line 197 is followed by line 200; lines 200 and 204 by the next iteration
AfterSleep(at) == IF at = "cooldown" THEN "poll" ELSE "loop"

\* lines 201-204: the handler alerts; an exception of its own leaves main
AfterError(post) == IF send_alert(post).exc THEN "stopped" ELSE "recover"

(***************************************************************************)
(* The environment: what the collaborators may answer.  fetch_ohlcv may    *)
(* return a series of any length (the program never truncates what it      *)
(* gets); Capped keeps the lengths of an exchange that returns no more     *)
(* rows than the limit it was asked for.                                   *)
(***************************************************************************)
MaxVolume == 2

MaxWick == 3

MaxCycles == 2

MaxLive == 1

Prices == {4, 5}

Volumes == 1..MaxVolume

Wicks == {0, MaxWick}

Moves == {0, 1}

Min(a, b) == IF a < b THEN a ELSE b

Max(a, b) == IF a < b THEN b ELSE a

Candle(o, c, lw, uw, v) ==
    [open |-> o, close |-> c, low |-> Min(o, c) - lw, high |-> Max(o, c) + uw,
     volume |-> v]

Candles ==
    {Candle(o, c, lw, uw, v) :
        o \in Prices, c \in Prices, lw \in Wicks, uw \in Wicks, v \in Volumes}

\* the candles a forming row is drawn from: both wicks long
FormingCandles ==
    {Candle(o, c, MaxWick, MaxWick, MaxVolume) : o \in Prices, c \in Prices}

\* the candles main's evaluations decide on: both wicks of one length
LoopCandles ==
    {Candle(o, c, w, w, v) :
        o \in Prices, c \in Prices, w \in Wicks, v \in Volumes}

\* the last candle of a daily series: it opens at the lowest price
DailyCandles == {Candle(4, c, 0, 0, MaxVolume) : c \in Prices}

\* a doji at the lowest price
Doji == Candle(4, 4, 0, 0, 1)

Series(n, tail, mc, mg, ml) ==
    [ok |-> TRUE, len |-> n, tail |-> tail, meanVol |-> MaxVolume,
     meanClose |-> mc, meanGain |-> mg, meanLoss |-> ml]

FetchFailed == [ok |-> FALSE] @@ Series(0, <<>>, 4, 0, 0)

\* the lengths a series may have: too short for iloc[-2], the requested limit,
\* and long enough for a defined sma_200 at the decision row
WorkLens == {1, LIMIT, SMA_WINDOW + 1}

\* the lengths of the working series in main's evaluations
LoopLens == {1, LIMIT}

DailyLens == {0, DAILY_LIMIT, SMA_WINDOW}

\* the last rows of a series of n rows: its last two, its last one
Tails(n, decision, forming) ==
    IF n = 0 THEN {<<>>}
    ELSE IF n = 1 THEN {<<f>> : f \in forming}
    ELSE {<<d, f>> : d \in decision, f \in forming}

LastRows(n, forming) == IF n = 0 THEN {<<>>} ELSE {<<f>> : f \in forming}

WorkSeries(lens, decision, forming) ==
    {FetchFailed} \cup
    UNION {{Series(n, t, mc, mg, ml) :
                t \in Tails(n, decision, forming), mc \in Prices,
                mg \in Moves, ml \in Moves} : n \in lens}

DailySeries(lens) ==
    {FetchFailed} \cup
    UNION {{Series(n, t, 4, 0, 0) : t \in LastRows(n, DailyCandles)} :
              n \in lens}

Balances == {[ok |-> FALSE, free |-> 0], [ok |-> TRUE, free |-> 0],
             [ok |-> TRUE, free |-> 500]}

Outcomes == {"ok", "fail"}

\* an exchange that returns at most the number of rows it was asked for
Capped(lens, limit) == {n \in lens : n <= limit}

\* the close series calculate_rsi is examined on
CloseValues == {1, 2}

CloseSeries ==
    UNION {[1..n -> CloseValues] : n \in {RSI_PERIOD, RSI_PERIOD + 1}}

(***************************************************************************)
(* State.                                                                  *)
(*   PAPER_TRADING, STOP_LOSS_PCT  the configuration (lines 20, 26)        *)
(*   pc            where main is: start, loop (about to call check_signal),*)
(*                 decided (check_signal returned), cooldown (line 197),   *)
(*                 poll (line 200), recover (line 204), stopped (an        *)
(*                 exception left main); call/return and rsi/rsi_done      *)
(*                 when a single function is examined                      *)
(*   signal        main's signal (line 194)                                *)
(*   daily_trend, df, balance      check_signal's locals                   *)
(*   io            what the collaborators answered in this cycle           *)
(*   log           the lines logged in this cycle                          *)
(*   order_result  what place_order returned in this cycle                 *)
(*   orders        calls of place_order in this cycle (kept until the next *)
(*                 evaluation)                                             *)
(*   alerts        calls of send_alert made by place_order in this cycle   *)
(*   live_orders   calls of create_market_*_order so far (saturating)      *)
(*   elapsed       time slept since the last call of check_signal          *)
(*   cycles        calls of check_signal so far (saturating)               *)
(*   closes, rsi   argument and result of calculate_rsi                    *)
(***************************************************************************)
VARIABLES PAPER_TRADING, STOP_LOSS_PCT, pc, signal, daily_trend, df, balance,
          io, log, order_result, orders, alerts, live_orders, elapsed, cycles,
          closes, rsi

vars == <<PAPER_TRADING, STOP_LOSS_PCT, pc, signal, daily_trend, df, balance,
          io, log, order_result, orders, alerts, live_orders, elapsed, cycles,
          closes, rsi>>

config == <<PAPER_TRADING, STOP_LOSS_PCT>>

NoIo == [work |-> "none", daily |-> "none", bal |-> "none", order |-> "none"]

Answer(r) == IF r.ok THEN "ok" ELSE "fail"

\* the answers behind a run of check_signal
IoOf(paper, work, daily, fetched, r) ==
    [work |-> Answer(work),
     daily |-> IF work.ok THEN Answer(daily) ELSE "none",
     bal |-> IF r.balance.called /\ ~paper THEN Answer(fetched) ELSE "none",
     order |-> "none"]

InitAt(start) ==
    /\ PAPER_TRADING \in BOOLEAN
    /\ STOP_LOSS_PCT \in StopLossChoices
    /\ pc = start
    /\ signal = None
    /\ daily_trend = "unset"
    /\ df = NoFrame
    /\ balance = NoBalance
    /\ io = NoIo
    /\ log = <<>>
    /\ order_result = "none"
    /\ orders = 0
    /\ alerts = 0
    /\ live_orders = 0
    /\ elapsed = 0
    /\ cycles = 0
    /\ closes = <<>>
    /\ rsi = <<>>

Init == InitAt("start")

\* line 190: the start alert, outside the try
Start ==
    /\ pc = "start"
    /\ \E post \in Outcomes :
          pc' = IF send_alert(post).exc THEN "stopped" ELSE "loop"
    /\ UNCHANGED <<config, signal, daily_trend, df, balance, io, log,
                   order_result, orders, alerts, live_orders, elapsed, cycles,
                   closes, rsi>>

\* line 194: signal = check_signal()
EvaluateOn(works, dailies) ==
    /\ pc = "loop"
    /\ \E work \in works, daily \in dailies, fetched \in Balances :
          \E r \in {check_signal(PAPER_TRADING, STOP_LOSS_PCT, work, daily, fetched)} :
              /\ signal' = r.signal
              /\ daily_trend' = r.daily_trend
              /\ balance' = r.balance
              /\ io' = IoOf(PAPER_TRADING, work, daily, fetched, r)
              /\ IF r.exc
                 THEN \E post \in Outcomes :
                        /\ pc' = AfterError(post)
                        /\ log' = r.log \o <<"Main loop error">>
                 ELSE /\ pc' = "decided"
                      /\ log' = r.log
    /\ cycles' = Min(MaxCycles, cycles + 1)
    /\ orders' = 0
    /\ order_result' = "none"
    /\ alerts' = 0
    /\ elapsed' = 0
    /\ UNCHANGED <<config, df, live_orders, closes, rsi>>

Evaluate ==
    EvaluateOn(WorkSeries(LoopLens, LoopCandles, {Doji}), DailySeries(DailyLens))

\* the same with an exchange that returns no more rows than requested
EvaluateCapped ==
    EvaluateOn(WorkSeries(Capped(LoopLens, LIMIT), LoopCandles, {Doji}),
               DailySeries(Capped(DailyLens, DAILY_LIMIT)))

\* lines 195-199
Act ==
    /\ pc = "decided"
    /\ IF signal.side # "none"
       THEN \E order \in Outcomes, post \in Outcomes :
              \E p \in {place_order(PAPER_TRADING, signal.side, signal.amount,
                                     order, post)} :
                  /\ pc' = IF p.exc THEN AfterError(post) ELSE AfterOrder(p.ret)
                  /\ order_result' = IF p.exc THEN "raised"
                                     ELSE IF p.ret THEN "True" ELSE "False"
                  /\ orders' = orders + 1
                  /\ alerts' = p.alerts
                  /\ live_orders' = Min(MaxLive, live_orders + p.live)
                  /\ io' = [io EXCEPT !.order = IF p.live = 1 THEN order ELSE "none"]
                  /\ log' = log \o p.log \o
                            (IF p.exc THEN <<"Main loop error">> ELSE <<>>)
       ELSE /\ pc' = "poll"
            /\ log' = log \o <<"No signal...">>
            /\ UNCHANGED <<order_result, orders, alerts, live_orders, io>>
    /\ UNCHANGED <<config, signal, daily_trend, df, balance, elapsed, cycles,
                   closes, rsi>>

\* lines 197, 200, 204: a sleep returns.  When the next iteration follows, the
\* cycle's record ends; signal is reset too: line 194 assigns it before any read.
Sleep ==
    /\ pc \in {"cooldown", "poll", "recover"}
    /\ elapsed' = elapsed + SleepTime(pc)
    /\ pc' = AfterSleep(pc)
    /\ IF AfterSleep(pc) = "loop"
       THEN /\ signal' = None
            /\ daily_trend' = "unset"
            /\ balance' = NoBalance
            /\ io' = NoIo
            /\ log' = <<>>
            /\ order_result' = "none"
            /\ alerts' = 0
       ELSE UNCHANGED <<signal, daily_trend, balance, io, log, order_result, alerts>>
    /\ UNCHANGED <<config, df, orders, live_orders, cycles, closes, rsi>>

Next == Start \/ Evaluate \/ Act \/ Sleep

Spec == Init /\ [][Next]_vars

\* main is one thread: each of its steps is eventually taken
SpecLive == Init /\ [][Next]_vars /\ WF_vars(Next)

NextCapped == Start \/ EvaluateCapped \/ Act \/ Sleep

SpecCapped == Init /\ [][NextCapped]_vars

(***************************************************************************)
(* check_signal alone, on every series of the environment.                 *)
(***************************************************************************)
InitEval == InitAt("call")

CallCheckSignal ==
    /\ pc = "call"
    /\ \E work \in WorkSeries(WorkLens, Candles, FormingCandles),
          daily \in DailySeries(DailyLens), fetched \in Balances :
          \E r \in {check_signal(PAPER_TRADING, STOP_LOSS_PCT, work, daily, fetched)} :
              /\ df' = r.df
              /\ signal' = r.signal
              /\ daily_trend' = r.daily_trend
              /\ balance' = r.balance
              /\ io' = IoOf(PAPER_TRADING, work, daily, fetched, r)
              /\ log' = r.log
    /\ pc' = "return"
    /\ UNCHANGED <<config, order_result, orders, alerts, live_orders, elapsed,
                   cycles, closes, rsi>>

NextEval == CallCheckSignal

SpecEval == InitEval /\ [][NextEval]_vars

(***************************************************************************)
(* calculate_rsi alone, on every close series of the environment.          *)
(***************************************************************************)
InitRsi == InitAt("rsi") /\ PAPER_TRADING /\ STOP_LOSS_PCT # Zero

CallCalculateRsi ==
    /\ pc = "rsi"
    /\ \E s \in CloseSeries :
          /\ closes' = s
          /\ rsi' = calculate_rsi([i \in 1..Len(s) |-> I(s[i])], RSI_PERIOD)
    /\ pc' = "rsi_done"
    /\ UNCHANGED <<config, signal, daily_trend, df, balance, io, log,
                   order_result, orders, alerts, live_orders, elapsed, cycles>>

NextRsi == CallCalculateRsi

SpecRsi == InitRsi /\ [][NextRsi]_vars

(***************************************************************************)
(* Properties.                                                             *)
(***************************************************************************)
Range(f) == {f[i] : i \in DOMAIN f}

\* the row at index N-2 of the frame check_signal fetched (N = df.len >= 2)
RowBeforeLast == df.rows[Len(df.rows) - 1]

RowLast == df.rows[Len(df.rows)]

Returned == pc = "return"

\* C1: every signal check_signal returns was decided on the row at index N-2
\* of the working series: that row passes the volume gate and the entry test
\* of the signal's side, and a buy is sized with that row's close; a skip for
\* low volume is a skip for that row's volume.
C1_DecidesOnRowBeforeLast ==
    Returned =>
        /\ signal.side # "none" =>
              /\ df.len >= 2
              /\ ~LowVolume(RowBeforeLast)
              /\ signal.side = "buy" =>
                    /\ BuyEntry(RowBeforeLast)
                    /\ signal.amount =
                         BuyAmount(balance.value, RowBeforeLast.close,
                                   STOP_LOSS_PCT).ret
              /\ signal.side = "sell" => SellEntry(RowBeforeLast)
        /\ "Skipped: Low volume" \in Range(log) =>
              df.len >= 2 /\ LowVolume(RowBeforeLast)

\* a buy was returned although the forming row fails the buy test
C1_Witness ==
    /\ Returned
    /\ signal.side = "buy"
    /\ ~BuyEntry(RowLast)
    /\ RowLast.close # RowBeforeLast.close

\* C2: every signal has side buy or sell and a finite, strictly positive
\* amount (with a stop-loss that is not zero: C7 is about the zero one).
C2_PositiveQuantity ==
    (Returned /\ signal.side # "none" /\ STOP_LOSS_PCT # Zero) =>
        /\ signal.side \in {"buy", "sell"}
        /\ IsFinite(signal.amount)
        /\ FGt(signal.amount, Zero)

\* C3: no exception reaches main; a failed daily fetch gives trend unknown; a
\* failed fetch of the working series, of the daily series or of the balance
\* gives no signal; a failed order gives False after one alert.
C3_FailuresAreBenign ==
    /\ pc \notin {"recover", "stopped"}
    /\ io.daily = "fail" => daily_trend = "unknown"
    /\ (io.work = "fail" \/ io.daily = "fail" \/ io.bal = "fail") =>
          signal.side = "none"
    /\ io.order = "fail" => (order_result = "False" /\ alerts = 1)

\* C4: a cycle with a signal calls place_order once and sleeps the cool-down
\* whatever place_order returned, and check_signal is not called again before
\* the cool-down has elapsed; a cycle without a signal calls place_order not
\* at all, and check_signal is called again after the poll interval.
C4_CooldownAfterOrder ==
    /\ pc = "cooldown" =>
          /\ signal.side # "none"
          /\ orders = 1
          /\ order_result \in {"True", "False"}
          /\ elapsed = 0
    /\ pc = "poll" =>
          IF signal.side # "none"
          THEN orders = 1 /\ elapsed = COOLDOWN
          ELSE orders = 0 /\ elapsed = 0 /\ order_result = "none"
    /\ (pc = "loop" /\ cycles > 0) =>
          IF orders > 0
          THEN orders = 1 /\ elapsed >= COOLDOWN
          ELSE elapsed = POLL_INTERVAL
    /\ pc \notin {"recover", "stopped"}

\* the cool-down after an order that failed
C4_Witness == pc = "cooldown" /\ order_result = "False" /\ io.order = "fail"

\* C5: main never stops, and check_signal returns again and again.
C5_NeverStops == [](pc # "stopped") /\ []<>(pc = "decided")

\* a later evaluation, after a cycle of any kind, itself with a failed fetch
C5_Witness == pc = "decided" /\ cycles >= 2 /\ io.work = "fail"

\* C6: in paper mode place_order returns True and never calls
\* create_market_buy_order / create_market_sell_order.
C6_PaperNeverLive ==
    PAPER_TRADING =>
        /\ live_orders = 0
        /\ io.order = "none"
        /\ order_result \in {"none", "True"}

C6_Witness == PAPER_TRADING /\ order_result = "True" /\ orders = 1

\* C7: with a stop-loss of zero, a cycle that reaches the position sizing ends
\* with the error InvalidConfiguration: with no signal, and not as the
\* ordinary "no signal".
C7_ZeroStopLossIsRejected ==
    (Returned /\ STOP_LOSS_PCT = Zero /\ balance.called) =>
        /\ signal.side = "none"
        /\ "InvalidConfiguration" \in Range(log)
        /\ "Signal check error" \notin Range(log)

\* C8: under a bullish trend a close below the long moving average gives no
\* signal, and a buy is returned only for a row whose long moving average is
\* defined and not above its close.
C8_BuyOnlyAboveLongMA ==
    (Returned /\ df.len >= 2) =>
        /\ (daily_trend = "bullish"
              /\ FLt(RowBeforeLast.close, RowBeforeLast.sma_200)) =>
              signal.side = "none"
        /\ signal.side = "buy" =>
              /\ ~IsNa(RowBeforeLast.sma_200)
              /\ FGe(RowBeforeLast.close, RowBeforeLast.sma_200)

\* no close of the window ending at row i (1-based) is below its predecessor
NoLossIn(i) ==
    \A j \in Max(2, i - RSI_PERIOD + 1)..i : closes[j] >= closes[j - 1]

\* C9: wherever the averaging window is filled the RSI is a number in
\* [0, 100], and it is 100 when the window holds no loss.
C9_RsiBounded ==
    pc = "rsi_done" =>
        \A i \in RSI_PERIOD..Len(rsi) :
            /\ IsFinite(rsi[i])
            /\ FGe(rsi[i], Zero)
            /\ FLe(rsi[i], Hundred)
            /\ NoLossIn(i) => rsi[i] = Hundred

\* C10: with an exchange that returns no more rows than requested, the daily
\* trend is never bullish or bearish, check_signal never returns a signal,
\* place_order is never called and main never sleeps the cool-down.
C10_NeverTrades ==
    /\ daily_trend \in {"unset", "unknown"}
    /\ signal.side = "none"
    /\ orders = 0
    /\ order_result = "none"
    /\ live_orders = 0
    /\ pc # "cooldown"

\* both fetches succeeded, no gate skipped the candle, and the trend is unknown
C10_Witness ==
    /\ pc = "poll"
    /\ io.work = "ok"
    /\ io.daily = "ok"
    /\ daily_trend = "unknown"
    /\ log = <<"No signal...">>

====
